---- MODULE Spec2Model ----
(***************************************************************************)
(* Model of the mparith multi-precision signed integer library             *)
(* (mparith::Integer<Width>) and of the operations its callers use.        *)
(*                                                                         *)
(* An Integer is a record [width, bits]: width is the template parameter   *)
(* Width (a byte count, or kUnlimited) and bits is the member _bits,       *)
(* std::vector<std::bitset<8>>, flattened to one sequence of BOOLEAN:      *)
(* bits[i + 1] is the bit operator[](i) reads, _bits[i / 8][i % 8], so      *)
(* the vector holds Len(bits) \div kWord_Bits_Cnt words.                   *)
(***************************************************************************)
EXTENDS Integers, Sequences, FiniteSets, TLC

(***************************************************************************)
(* Program constants                                                       *)
(***************************************************************************)
\* std::numeric_limits<size_t>::max(); the model uses the largest width it can
\* write, which is all Get_Max and the == kUnlimited tests need.
kUnlimited == 2147483647

kWidth_Min == 4

kWord_Bits_Cnt == 8

(***************************************************************************)
(* Loops.  While(Cond, Body, st) is the state in which the loop            *)
(*     while (Cond(st)) st = Body(st);                                     *)
(* ends.  Steps runs at most 2^k iterations of it, by halves, so that a    *)
(* loop of n iterations nests its evaluation about log n deep.             *)
(***************************************************************************)
\* Steps(Cond, Body, S, k): the states of S after at most 2^k iterations each
RECURSIVE Steps(_, _, _, _)
Steps(Cond(_), Body(_), S, k) ==
    IF k = 0 THEN {IF Cond(st) THEN Body(st) ELSE st : st \in S}
    ELSE UNION {Steps(Cond, Body, {half}, k - 1) : half \in Steps(Cond, Body, S, k - 1)}

RECURSIVE While(_, _, _)
While(Cond(_), Body(_), st) ==
    IF ~ Cond(st) THEN st
    ELSE While(Cond, Body, CHOOSE part \in Steps(Cond, Body, {st}, 5) : TRUE)

\* Let(v, F) is LET w == v IN F(w), with v evaluated once, before F
Let(v, F(_)) == CHOOSE r \in {F(w) : w \in {v}} : TRUE

(***************************************************************************)
(* Util functions                                                          *)
(***************************************************************************)
Get_Max(lhs, rhs) == IF lhs >= rhs THEN lhs ELSE rhs

Is_Limited(width) == width # kUnlimited

Is_Unlimited(width) == width = kUnlimited

\* a vector of bits given by a function on 1..n, as a sequence value
Vector(f) == f \o <<>>

\* n words of zero bits
ZeroBits(n) == Vector([i \in 1..(n * kWord_Bits_Cnt) |-> FALSE])

\* Integer(): Width words when limited, kWidth_Min words otherwise
Integer(width) ==
    [width |-> width,
     bits  |-> IF Is_Limited(width) THEN ZeroBits(width) ELSE ZeroBits(kWidth_Min)]

SetBit(x, idx, b) == [x EXCEPT !.bits[idx + 1] = b]

\* the static constants kZero, kOne, kTwo, kTen of Integer<Width>
kZero(width) == Integer(width)

kOne(width) == SetBit(Integer(width), 0, TRUE)

kTwo(width) == SetBit(Integer(width), 1, TRUE)

kTen(width) == SetBit(SetBit(Integer(width), 1, TRUE), 3, TRUE)

Words(x) == Len(x.bits) \div kWord_Bits_Cnt

Get_Actual_Width(x) == IF Is_Limited(x.width) THEN x.width ELSE Words(x)

Get_Actual_Bits_Cnt(x) == Get_Actual_Width(x) * kWord_Bits_Cnt

Is_Positive(x) == ~ x.bits[(Get_Actual_Width(x) - 1) * kWord_Bits_Cnt + kWord_Bits_Cnt]

\* Get_Normalized that fills the new words with zeros, whatever the sign
Get_Normalized_ZeroFill(x, New_Width, actual_width) ==
    IF Get_Actual_Width(x) = actual_width
    THEN [width |-> New_Width, bits |-> x.bits]
    ELSE [width |-> New_Width,
          bits  |-> Vector([i \in 1..(actual_width * kWord_Bits_Cnt) |->
                       IF i <= Len(x.bits) THEN x.bits[i] ELSE FALSE])]

\* Get_Normalized<New_Width>(actual_width).  std::ranges::copy writes all of
\* _bits into a vector of actual_width words: when actual_width is smaller the
\* copy runs past the end of result_bits (undefined behaviour, see
\* NormalizeOverrun); the words that fit are the low ones, which is what the
\* returned vector holds when the overrun goes unnoticed.
Get_Normalized(x, New_Width, actual_width) ==
    IF Get_Actual_Width(x) = actual_width
    THEN [width |-> New_Width, bits |-> x.bits]
    ELSE LET n   == actual_width * kWord_Bits_Cnt
             old == Len(x.bits)
             neg == ~ Is_Positive(x)
         IN [width |-> New_Width,
             bits  |-> Vector([i \in 1..n |->
                          IF i <= old THEN x.bits[i]
                          ELSE IF i > Get_Actual_Bits_Cnt(x) THEN neg ELSE FALSE])]

\* the copy of Get_Normalized overruns its destination
NormalizeOverrun(x, actual_width) ==
    /\ Get_Actual_Width(x) # actual_width
    /\ Words(x) > actual_width

Get_Normalized_New(Width_, actual_width) ==
    Get_Normalized(Integer(Width_), Width_, actual_width)

Get_Normalized_Existing(integer, New_Width, actual_width) ==
    Get_Normalized(integer, New_Width, actual_width)

Get_Inverse(x) == [x EXCEPT !.bits = Vector([i \in 1..Len(x.bits) |-> ~ x.bits[i]])]

\* for (i = Get_Actual_Bits_Cnt() - 1; i != 0; --i) if ((*this)[i]) return i;
\* return 0
Get_Msb_Idx(x) ==
    LET Cond(i) == i # 0 /\ ~ x.bits[i + 1]
        Body(i) == i - 1
    IN While(Cond, Body, Get_Actual_Bits_Cnt(x) - 1)

(***************************************************************************)
(* Add: ripple-carry addition.  The out-parameters overflow_flag and       *)
(* carry_flag are only ever set, never cleared: Add returns whether this   *)
(* call sets them and the caller joins that to the flag it passed in.      *)
(***************************************************************************)
\* the loop over the bits; st holds the loop variable i, the local carry and
\* the bits of result written so far
Add_Loop(left, right) ==
    LET Cond(st) == st.i < Get_Actual_Bits_Cnt(left)
        Body(st) == LET l == left.bits[st.i + 1]
                        r == right.bits[st.i + 1]
                    IN [i     |-> st.i + 1,
                        carry |-> (l /\ r) \/ ((l # r) /\ st.carry),
                        bits  |-> Append(st.bits, (l # r) # st.carry)]
    IN While(Cond, Body, [i |-> 0, carry |-> FALSE, bits |-> <<>>])

\* Unlimited result: append a word when the sign of the sum is wrong
Add_Grow(left, right, result) ==
    IF Is_Positive(left) /\ Is_Positive(right) /\ ~ Is_Positive(result)
    THEN [result EXCEPT !.bits = @ \o ZeroBits(1)]
    ELSE IF ~ Is_Positive(left) /\ ~ Is_Positive(right) /\ Is_Positive(result)
    THEN [result EXCEPT !.bits = @ \o Vector([i \in 1..kWord_Bits_Cnt |-> TRUE])]
    ELSE result

\* Add_Overflow without its second case: a negative sum that wrapped is not noticed
Add_Overflow_PositiveOnly(left, right, result) ==
    Is_Positive(left) /\ Is_Positive(right) /\ ~ Is_Positive(result)

\* Limited result: signed overflow
Add_Overflow(left, right, result) ==
    \/ Is_Positive(left) /\ Is_Positive(right) /\ ~ Is_Positive(result)
    \/ ~ Is_Positive(left) /\ ~ Is_Positive(right) /\ Is_Positive(result)

Add(lhs, rhs) ==
    LET Result_Width        == Get_Max(lhs.width, rhs.width)
        Result_Actual_Width == Get_Max(Get_Actual_Width(lhs), Get_Actual_Width(rhs))
    IN Let(Get_Normalized_Existing(lhs, Result_Width, Result_Actual_Width), LAMBDA left :
       Let(Get_Normalized_Existing(rhs, Result_Width, Result_Actual_Width), LAMBDA right :
       Let(Add_Loop(left, right), LAMBDA sum :
       Let([width |-> Result_Width, bits |-> sum.bits], LAMBDA result :
           [val      |-> IF Is_Unlimited(Result_Width)
                         THEN Add_Grow(left, right, result) ELSE result,
            overflow |-> Is_Limited(Result_Width) /\ Add_Overflow(left, right, result),
            carry    |-> sum.carry]))))

Get_Complement(x) == Add(Get_Inverse(x), kOne(x.width)).val

Get_Positive(x) == IF Is_Positive(x) THEN x ELSE Get_Complement(x)

(***************************************************************************)
(* Shifts, equality                                                        *)
(***************************************************************************)
\* operator<<: limited widths shift the std::bitset of Width words, unlimited
\* ones move the bits of the current vector; neither grows
ShiftLeft(x, shift) ==
    IF shift = 0 THEN x
    ELSE [x EXCEPT !.bits = Vector([i \in 1..Get_Actual_Bits_Cnt(x) |->
                               IF i > shift THEN x.bits[i - shift] ELSE FALSE])]

\* operator>>: zero-filling
ShiftRight(x, shift) ==
    IF shift = 0 THEN x
    ELSE [x EXCEPT !.bits = Vector([i \in 1..Get_Actual_Bits_Cnt(x) |->
                               IF i + shift <= Get_Actual_Bits_Cnt(x)
                               THEN x.bits[i + shift] ELSE FALSE])]

\* operator== that compares the words as stored
Equals_Stored(lhs, rhs) ==
    /\ Get_Actual_Bits_Cnt(lhs) = Get_Actual_Bits_Cnt(rhs)
    /\ \A i \in 1..Get_Actual_Bits_Cnt(lhs) : lhs.bits[i] = rhs.bits[i]

\* operator==
Equals(lhs, rhs) ==
    IF Is_Positive(lhs) # Is_Positive(rhs) THEN FALSE
    ELSE LET Result_Width        == Get_Max(lhs.width, rhs.width)
             Result_Actual_Width == Get_Max(Get_Actual_Width(lhs), Get_Actual_Width(rhs))
         IN Let(Get_Normalized_Existing(lhs, Result_Width, Result_Actual_Width), LAMBDA left :
            Let(Get_Normalized_Existing(rhs, Result_Width, Result_Actual_Width), LAMBDA right :
                \A i \in 1..Get_Actual_Bits_Cnt(left) : left.bits[i] = right.bits[i]))

\* operator!=
NotEquals(lhs, rhs) == ~ Equals(lhs, rhs)

(***************************************************************************)
(* What an operation hands to its caller: a value, or an exception.        *)
(* OverflowException carries the result computed so far.                   *)
(***************************************************************************)
Returned(v) == [kind |-> "returned", val |-> v]

OverflowException(v) == [kind |-> "OverflowException", val |-> v]

ArithmeticException(msg) == [kind |-> "ArithmeticException", msg |-> msg]

\* the converting copy constructor Integer<Width>(const Integer<Rhs_Width> &):
\* _bits(rhs._bits)
Convert(rhs, Width) == [width |-> Width, bits |-> rhs.bits]

(***************************************************************************)
(* Mul: shift-and-add on the operands made positive                        *)
(***************************************************************************)
\* the loop; st holds i, result, left, right and the latched carry_flag
Mul_Loop(result, left, right) ==
    Let(Get_Msb_Idx(right), LAMBDA right_msb :
        LET Cond(st) == st.i <= right_msb
            Body(st) ==
                IF st.right.bits[1]
                THEN Let(Add(st.result, st.left), LAMBDA sum :
                         [i          |-> st.i + 1,
                          result     |-> sum.val,
                          left       |-> ShiftLeft(st.left, 1),
                          right      |-> ShiftRight(st.right, 1),
                          carry_flag |-> st.carry_flag \/ sum.carry])
                ELSE [i          |-> st.i + 1,
                      result     |-> st.result,
                      left       |-> ShiftLeft(st.left, 1),
                      right      |-> ShiftRight(st.right, 1),
                      carry_flag |-> st.carry_flag]
        IN While(Cond, Body, [i |-> 0, result |-> result, left |-> left, right |-> right,
                              carry_flag |-> FALSE]))

\* the lambda Shrink of Mul: resize to the words the magnitude needs
Shrink(integer) ==
    Let(Get_Max(((Get_Msb_Idx(integer) + 1) \div kWord_Bits_Cnt) + 1, kWidth_Min), LAMBDA size :
        [integer EXCEPT !.bits = Vector([i \in 1..(size * kWord_Bits_Cnt) |->
                                    IF i <= Len(integer.bits) THEN integer.bits[i] ELSE FALSE])])

\* Limited result: the overflow test after the loop
Mul_Overflow(carry_flag, result) == carry_flag \/ ~ Is_Positive(result)

Mul(lhs, rhs) ==
    LET Result_Width        == Get_Max(lhs.width, rhs.width)
        Result_Actual_Width == Get_Max(Get_Actual_Width(lhs), Get_Actual_Width(rhs))
        result_is_positive  == (Is_Positive(lhs) = Is_Positive(rhs))
        Extended_Result_Actual_Width ==
            2 * Get_Max(Get_Actual_Width(lhs), Get_Actual_Width(rhs))
        Extended(operand) ==
            IF Is_Unlimited(Result_Width)
            THEN Get_Normalized_Existing(operand, Result_Width, Extended_Result_Actual_Width)
            ELSE operand
    IN Let(Extended(Get_Normalized_Existing(Get_Positive(lhs), Result_Width, Result_Actual_Width)),
           LAMBDA left :
       Let(Extended(Get_Normalized_Existing(Get_Positive(rhs), Result_Width, Result_Actual_Width)),
           LAMBDA right :
       Let(Mul_Loop(Integer(Result_Width), left, right), LAMBDA loop :
       Let(IF Is_Unlimited(Result_Width) THEN Shrink(loop.result) ELSE loop.result,
           LAMBDA result :
           [val      |-> IF result_is_positive THEN result ELSE Get_Complement(result),
            overflow |-> Is_Limited(Result_Width)
                         /\ Mul_Overflow(loop.carry_flag, loop.result)]))))

\* Mul normalizes lhs.Get_Positive() and rhs.Get_Positive() to an actual width
\* taken from lhs and rhs themselves: the copy overruns when making an operand
\* positive has grown it
Mul_Overrun(lhs, rhs) ==
    LET Result_Actual_Width == Get_Max(Get_Actual_Width(lhs), Get_Actual_Width(rhs))
    IN \/ NormalizeOverrun(Get_Positive(lhs), Result_Actual_Width)
       \/ NormalizeOverrun(Get_Positive(rhs), Result_Actual_Width)

(***************************************************************************)
(* Operators + - *                                                         *)
(***************************************************************************)
OperatorPlus(lhs, rhs) ==
    Let(Add(lhs, rhs), LAMBDA sum :
        IF sum.overflow THEN OverflowException(sum.val) ELSE Returned(sum.val))

OperatorMinus(lhs, rhs) == OperatorPlus(lhs, Get_Complement(rhs))

OperatorNegate(x) == Returned(Get_Complement(x))

OperatorMul(lhs, rhs) ==
    Let(Mul(lhs, rhs), LAMBDA product :
        IF product.overflow THEN OverflowException(product.val) ELSE Returned(product.val))

(***************************************************************************)
(* Div_Mod: long division on the operands made positive.  kZero is the     *)
(* constant of the class the call is made in, Integer<Lhs_Width>.          *)
(***************************************************************************)
\* the loop; st holds i, quotient and remainder.  remainder - denominator is
\* the public operator-, whose OverflowException leaves Div_Mod
Div_Mod_Loop(numerator, denominator, quotient, remainder) ==
    Let(Get_Msb_Idx(numerator), LAMBDA numerator_msb :
        LET Cond(st) == st.kind = "returned" /\ st.i <= numerator_msb
            Body(st) ==
                LET idx == numerator_msb - st.i
                IN Let(SetBit(ShiftLeft(st.remainder, 1), 0, numerator.bits[idx + 1]),
                       LAMBDA shifted :
                   Let(OperatorMinus(shifted, denominator), LAMBDA difference :
                       IF difference.kind # "returned"
                       THEN [st EXCEPT !.kind = difference.kind, !.val = difference.val]
                       ELSE IF Is_Positive(difference.val)
                       THEN [st EXCEPT !.i = @ + 1,
                                       !.quotient  = SetBit(st.quotient, idx, TRUE),
                                       !.remainder = difference.val]
                       ELSE [st EXCEPT !.i = @ + 1, !.remainder = shifted]))
        IN Let(While(Cond, Body, [kind |-> "returned", i |-> 0, val |-> quotient,
                                  quotient |-> quotient, remainder |-> remainder]),
               LAMBDA end :
               IF end.kind = "returned"
               THEN [kind |-> "returned", quotient |-> end.quotient,
                     remainder |-> end.remainder]
               ELSE OverflowException(end.val)))

Div_Mod_Sign(result_is_positive, pair) ==
    IF pair.kind # "returned" \/ result_is_positive THEN pair
    ELSE [pair EXCEPT !.quotient = Get_Complement(pair.quotient)]

\* Div_Mod_Check with the two tests in the other order
Div_Mod_Check_DividendFirst(lhs, rhs) ==
    IF Equals(lhs, kZero(lhs.width)) THEN "zero"
    ELSE IF Equals(rhs, kZero(lhs.width)) THEN "throw"
    ELSE "divide"

\* the two tests Div_Mod opens with: the divisor, then the dividend
Div_Mod_Check(lhs, rhs) ==
    IF Equals(rhs, kZero(lhs.width)) THEN "throw"
    ELSE IF Equals(lhs, kZero(lhs.width)) THEN "zero"
    ELSE "divide"

Div_Mod(lhs, rhs) ==
    LET Result_Width        == Get_Max(lhs.width, rhs.width)
        Result_Actual_Width == Get_Max(Get_Actual_Width(lhs), Get_Actual_Width(rhs))
        result_is_positive  == (Is_Positive(lhs) = Is_Positive(rhs))
    IN Let(Div_Mod_Check(lhs, rhs), LAMBDA check :
           IF check = "throw" THEN ArithmeticException("Division By Zero")
           ELSE IF check = "zero"
           THEN [kind      |-> "returned",
                 quotient  |-> Convert(kZero(lhs.width), Result_Width),
                 remainder |-> Convert(kZero(lhs.width), Result_Width)]
           ELSE Div_Mod_Sign(result_is_positive,
                    Div_Mod_Loop(
                        Get_Normalized_Existing(Get_Positive(lhs), Result_Width, Result_Actual_Width),
                        Get_Normalized_Existing(Get_Positive(rhs), Result_Width, Result_Actual_Width),
                        Get_Normalized_New(Result_Width, Result_Actual_Width),
                        Get_Normalized_New(Result_Width, Result_Actual_Width))))

\* as Mul_Overrun, for the numerator and the denominator
Div_Mod_Overrun(lhs, rhs) ==
    LET Result_Actual_Width == Get_Max(Get_Actual_Width(lhs), Get_Actual_Width(rhs))
    IN /\ Div_Mod_Check(lhs, rhs) = "divide"
       /\ \/ NormalizeOverrun(Get_Positive(lhs), Result_Actual_Width)
          \/ NormalizeOverrun(Get_Positive(rhs), Result_Actual_Width)

OperatorDiv(lhs, rhs) ==
    Let(Div_Mod(lhs, rhs), LAMBDA pair :
        IF pair.kind = "returned" THEN Returned(pair.quotient) ELSE pair)

OperatorMod(lhs, rhs) ==
    Let(Div_Mod(lhs, rhs), LAMBDA pair :
        IF pair.kind = "returned" THEN Returned(pair.remainder) ELSE pair)

(***************************************************************************)
(* Deserialize: a string is a sequence of characters                       *)
(***************************************************************************)
DigitValue(c) ==
    CASE c = "0" -> 0 [] c = "1" -> 1 [] c = "2" -> 2 [] c = "3" -> 3 [] c = "4" -> 4
      [] c = "5" -> 5 [] c = "6" -> 6 [] c = "7" -> 7 [] c = "8" -> 8 [] c = "9" -> 9

\* Integer{std::bitset<kWord_Bits_Cnt>(c - '0')}: the digit in the first word
DigitInteger(Width, c) ==
    LET d == DigitValue(c)
    IN [Integer(Width) EXCEPT !.bits = Vector([i \in 1..Len(@) |->
          IF i <= kWord_Bits_Cnt THEN ((d \div (2 ^ (i - 1))) % 2 = 1) ELSE FALSE])]

\* the loop; st holds i, result, overflow_flag and is_positive
Deserialize_Loop(Width, str) ==
    LET Cond(st) == st.i < Len(str)
        Body(st) ==
            LET c == str[st.i + 1]
            IN IF st.i = 0 /\ c = "+" THEN [st EXCEPT !.i = @ + 1]
               ELSE IF st.i = 0 /\ c = "-"
               THEN [st EXCEPT !.i = @ + 1, !.is_positive = FALSE]
               ELSE Let(IF st.i = 0 THEN [val |-> st.result, overflow |-> FALSE]
                        ELSE Mul(st.result, kTen(Width)), LAMBDA product :
                    Let(Add(product.val, DigitInteger(Width, c)), LAMBDA sum :
                        [st EXCEPT !.i = @ + 1,
                                   !.result = sum.val,
                                   !.overflow_flag = @ \/ product.overflow \/ sum.overflow]))
    IN While(Cond, Body, [i |-> 0, result |-> Integer(Width),
                          overflow_flag |-> FALSE, is_positive |-> TRUE])

Deserialize(Width, str) ==
    Let(Deserialize_Loop(Width, str), LAMBDA loop :
        IF loop.overflow_flag THEN OverflowException(loop.result)
        ELSE IF loop.is_positive THEN Returned(loop.result)
        ELSE Returned(Get_Complement(loop.result)))

(***************************************************************************)
(* Serialize                                                               *)
(***************************************************************************)
\* Serialize is noexcept: an exception of a call it makes ends the program
Terminated == [kind |-> "terminated"]

Text(str) == [kind |-> "returned", str |-> str]

\* bitset.to_ullong(), bitset being the first word of mod
To_Ullong(mod) ==
    LET Cond(st) == st.i < kWord_Bits_Cnt
        Body(st) == [i |-> st.i + 1,
                     n |-> st.n + (IF mod.bits[st.i + 1] THEN 2 ^ st.i ELSE 0)]
    IN While(Cond, Body, [i |-> 0, n |-> 0]).n

\* static_cast<char>(n + '0'): the character with the code '0' + n; "~" stands
\* for the characters after '?', which are no digits either
DigitChar(n) ==
    IF n < 16
    THEN <<"0", "1", "2", "3", "4", "5", "6", "7", "8", "9",
           ":", ";", "<", "=", ">", "?">>[n + 1]
    ELSE "~"

\* a stack that pushes at its bottom
Push_Bottom(stack, c) == Append(stack, c)

\* std::stack<char>::push; the top is the first element
Push(stack, c) == <<c>> \o stack

\* for (; copy != kZero; copy /= kTen) stack.push(digit of copy % kTen);
\* st holds copy, the stack (its top first) and whether a call has thrown
Serialize_Loop(copy) ==
    LET Cond(st) == st.kind = "returned" /\ NotEquals(st.copy, kZero(copy.width))
        Body(st) ==
            Let(OperatorMod(st.copy, kTen(copy.width)), LAMBDA mod :
                IF mod.kind # "returned" THEN [st EXCEPT !.kind = "terminated"]
                ELSE Let(OperatorDiv(st.copy, kTen(copy.width)), LAMBDA quotient :
                         IF quotient.kind # "returned" THEN [st EXCEPT !.kind = "terminated"]
                         ELSE [st EXCEPT !.copy  = Convert(quotient.val, copy.width),
                                         !.stack = Push(@, DigitChar(To_Ullong(mod.val)))]))
    IN While(Cond, Body, [kind |-> "returned", copy |-> copy, stack |-> <<>>])

Serialize(x) ==
    LET is_positive == Is_Positive(x)
    IN IF Equals(x, kZero(x.width)) THEN Text(<<"0">>)
       ELSE Let(Serialize_Loop(IF is_positive THEN x ELSE Get_Complement(x)), LAMBDA loop :
                IF loop.kind # "returned" THEN Terminated
                ELSE Text((IF is_positive THEN <<>> ELSE <<"-">>) \o loop.stack))

(***************************************************************************)
(* Factorial                                                               *)
(***************************************************************************)
\* Factorial_Check that takes a negative number for one
Factorial_Check_NoThrow(x) ==
    IF ~ Is_Positive(x) THEN "one"
    ELSE IF Equals(x, kZero(x.width)) \/ Equals(x, kOne(x.width)) THEN "one"
    ELSE "loop"

\* the two tests Factorial opens with
Factorial_Check(x) ==
    IF ~ Is_Positive(x) THEN "throw"
    ELSE IF Equals(x, kZero(x.width)) \/ Equals(x, kOne(x.width)) THEN "one"
    ELSE "loop"

\* a running product that starts at one
Factorial_Start_One(x) == kOne(x.width)

\* Integer result{*this}
Factorial_Start(x) == x

\* an overflow_flag that the next multiplication clears
Latch_Last(overflow_flag, set) == set

\* bool &overflow_flag, which Mul sets and never clears
Latch(overflow_flag, set) == overflow_flag \/ set

\* a multiplier that starts at one
Factorial_First_One(x) == kOne(x.width)

\* Integer multiplier{kTwo}
Factorial_First(x) == kTwo(x.width)

\* for (Integer multiplier{kTwo}; multiplier != *this; ++multiplier)
\*     result = Mul(result, multiplier, overflow_flag);
\* st holds multiplier, result and overflow_flag, and counts the calls of Mul;
\* the OverflowException of ++multiplier leaves Factorial
Factorial_Loop(x) ==
    LET Cond(st) == st.kind = "returned" /\ NotEquals(st.multiplier, x)
        Body(st) ==
            Let(Mul(st.result, st.multiplier), LAMBDA product :
            Let(OperatorPlus(st.multiplier, kOne(x.width)), LAMBDA next :
                IF next.kind # "returned"
                THEN [st EXCEPT !.kind = next.kind, !.result = next.val,
                                !.multiplications = @ + 1]
                ELSE [st EXCEPT !.multiplier      = next.val,
                                !.result          = product.val,
                                !.overflow_flag   = Latch(@, product.overflow),
                                !.multiplications = @ + 1]))
    IN While(Cond, Body, [kind |-> "returned", multiplier |-> Factorial_First(x),
                          result |-> Factorial_Start(x), overflow_flag |-> FALSE,
                          multiplications |-> 0])

Factorial(x) ==
    Let(Factorial_Check(x), LAMBDA check :
        IF check = "throw" THEN ArithmeticException("Factorial Of Negative Number")
        ELSE IF check = "one" THEN Returned(kOne(x.width))
        ELSE Let(Factorial_Loop(x), LAMBDA loop :
                 IF loop.kind # "returned" \/ loop.overflow_flag
                 THEN OverflowException(loop.result)
                 ELSE Returned(loop.result)))

(***************************************************************************)
(* The program: two objects x and y of widths chosen at compile time, each *)
(* default-constructed, then constructed from a string; the caller then    *)
(* applies the public operations to them.  call records the operation in   *)
(* progress: its operands and what it handed back.                         *)
(***************************************************************************)
VARIABLES x, y, mutations, call, Number, bank, ostream, session, line, istream, results

vars == <<x, y, mutations, call, Number, bank, ostream, session, line, istream, results>>

\* the terminal: the width of its Number type, its _bank, what it wrote to
\* _ostream since it read the latest line, where Run stands, the line read
\* last, the lines istream still holds, and the history of the results the
\* operations have handed back, the latest first
terminal == <<Number, bank, ostream, session, line, istream, results>>

\* the objects of the caller of the library
objects == <<x, y, mutations, call>>

\* the widths the objects are declared with
Widths == {kWidth_Min, kWidth_Min + 1, kUnlimited}

\* the strings x is constructed from
X_Strings ==
    { <<"-", "1", "2", "3", "4", "5", "6">>,
      <<"5", "3", "6", "8", "7", "0", "9", "1", "2">>,
      <<"-", "1", "0", "7", "3", "7", "4", "1", "8", "2", "4">>,
      <<"2", "1", "4", "7", "4", "8", "3", "6", "4", "7">>,
      <<"-", "2", "1", "4", "7", "4", "8", "3", "6", "4", "7">>,
      <<"2", "1", "4", "7", "4", "8", "3", "6", "4", "8">>,
      <<"5", "3", "6", "8", "7", "0", "9", "1", "2", "0">>,
      <<"5", "4", "9", "7", "5", "5", "8", "1", "3", "8", "8", "7">> }

\* the strings y is constructed from
Y_Strings ==
    { <<"+", "1">>, <<"-", "1">>, <<"1", "0">>, <<"6", "7", "8">> }

\* the largest number whose factorial the caller asks for
MaxFactorial == 17

\* the decimal digits
Digits == <<"0", "1", "2", "3", "4", "5", "6", "7", "8", "9">>

\* the strings of the small numbers x is constructed from
N_Strings ==
    {IF n < 10 THEN <<Digits[n + 1]>> ELSE <<Digits[(n \div 10) + 1], Digits[(n % 10) + 1]>> :
        n \in 0..MaxFactorial}

\* the number of ++ and -- applied to x after its construction
MaxMutations == 1

NoCall == [op |-> "none"]

\* what is observed when undefined behaviour ends the program
Crashed == [kind |-> "crashed"]

Init ==
    /\ x \in {Integer(w) : w \in Widths}
    /\ y \in {Integer(w) : w \in Widths}
    /\ mutations = 0
    /\ call = NoCall
    /\ Number = kUnlimited
    /\ bank = <<>>
    /\ ostream = <<>>
    /\ session = "off"
    /\ line = <<>>
    /\ istream = <<>>
    /\ results = <<>>

\* x = Integer<Width>(str), on the object as default-constructed
Construct_x ==
    /\ call = NoCall
    /\ mutations = 0
    /\ x = Integer(x.width)
    /\ \E str \in X_Strings :
         \E out \in {Deserialize(x.width, str)} :
            /\ call' = [op |-> "Deserialize", width |-> x.width, str |-> str, out |-> out]
            /\ x' = IF out.kind = "returned" THEN out.val ELSE x
    /\ UNCHANGED <<y, mutations, terminal>>

\* x = Integer<Width>(str) for a small number
Construct_n ==
    /\ call = NoCall
    /\ mutations = 0
    /\ x = Integer(x.width)
    /\ \E str \in N_Strings :
         \E out \in {Deserialize(x.width, str)} :
            /\ call' = [op |-> "Deserialize", width |-> x.width, str |-> str, out |-> out]
            /\ x' = IF out.kind = "returned" THEN out.val ELSE x
    /\ UNCHANGED <<y, mutations, terminal>>

Construct_y ==
    /\ call = NoCall
    /\ y = Integer(y.width)
    /\ \E str \in Y_Strings :
         \E out \in {Deserialize(y.width, str)} :
            /\ call' = [op |-> "Deserialize", width |-> y.width, str |-> str, out |-> out]
            /\ y' = IF out.kind = "returned" THEN out.val ELSE y
    /\ UNCHANGED <<x, mutations, terminal>>

\* y = Integer<Width>(str) for the strings x is constructed from
Construct_y_as_x ==
    /\ call = NoCall
    /\ y = Integer(y.width)
    /\ \E str \in X_Strings :
         \E out \in {Deserialize(y.width, str)} :
            /\ call' = [op |-> "Deserialize", width |-> y.width, str |-> str, out |-> out]
            /\ y' = IF out.kind = "returned" THEN out.val ELSE y
    /\ UNCHANGED <<x, mutations, terminal>>

\* the operand pairs of a binary operation: x op y, y op x, x op x
Operands == {<<x, y>>, <<y, x>>, <<x, x>>}

OpPlus ==
    /\ call = NoCall
    /\ \E p \in Operands :
         call' = [op |-> "+", lhs |-> p[1], rhs |-> p[2], out |-> OperatorPlus(p[1], p[2])]
    /\ UNCHANGED <<x, y, mutations, terminal>>

OpMinus ==
    /\ call = NoCall
    /\ \E p \in Operands :
         call' = [op |-> "-", lhs |-> p[1], rhs |-> p[2], out |-> OperatorMinus(p[1], p[2])]
    /\ UNCHANGED <<x, y, mutations, terminal>>

\* what a call can hand back: the overrun inside Mul and Div_Mod is undefined
\* behaviour, the program crashes or goes on with the words that fit
Undefined(overrun, out) == IF overrun THEN {out, Crashed} ELSE {out}

OpTimes ==
    /\ call = NoCall
    /\ \E p \in Operands :
         \E out \in Undefined(Mul_Overrun(p[1], p[2]), OperatorMul(p[1], p[2])) :
            call' = [op |-> "*", lhs |-> p[1], rhs |-> p[2], out |-> out]
    /\ UNCHANGED <<x, y, mutations, terminal>>

OpDivide ==
    /\ call = NoCall
    /\ \E p \in Operands :
         \E out \in Undefined(Div_Mod_Overrun(p[1], p[2]), OperatorDiv(p[1], p[2])) :
            call' = [op |-> "/", lhs |-> p[1], rhs |-> p[2], out |-> out]
    /\ UNCHANGED <<x, y, mutations, terminal>>

OpModulo ==
    /\ call = NoCall
    /\ \E p \in Operands :
         \E out \in Undefined(Div_Mod_Overrun(p[1], p[2]), OperatorMod(p[1], p[2])) :
            call' = [op |-> "%", lhs |-> p[1], rhs |-> p[2], out |-> out]
    /\ UNCHANGED <<x, y, mutations, terminal>>

\* what a comparison hands back
Compared(truth) == [kind |-> "compared", truth |-> truth]

OpEquals ==
    /\ call = NoCall
    /\ \E p \in Operands :
         call' = [op |-> "==", lhs |-> p[1], rhs |-> p[2], out |-> Compared(Equals(p[1], p[2]))]
    /\ UNCHANGED <<x, y, mutations, terminal>>

OpNotEquals ==
    /\ call = NoCall
    /\ \E p \in Operands :
         call' = [op |-> "!=", lhs |-> p[1], rhs |-> p[2], out |-> Compared(NotEquals(p[1], p[2]))]
    /\ UNCHANGED <<x, y, mutations, terminal>>

OpNegate ==
    /\ call = NoCall
    /\ call' = [op |-> "neg", lhs |-> x, out |-> OperatorNegate(x)]
    /\ UNCHANGED <<x, y, mutations, terminal>>

\* x.Serialize(), as operator<< and OverflowException call it.  copy is made
\* positive before the loop and Unlimited quotients of it stay positive, so
\* the normalizations inside its divisions copy within bounds
OpSerialize ==
    /\ call = NoCall
    /\ \E out \in {Serialize(x)} :
          call' = [op |-> "Serialize", lhs |-> x, out |-> out]
    /\ UNCHANGED <<x, y, mutations, terminal>>

\* const Integer<Width> copy = x, for a Width the static_assert of
\* Assert_Valid_Assignment_Widths lets through: Width >= the width of x
OpCopy ==
    /\ call = NoCall
    /\ \E Width \in {w \in Widths : w >= x.width} :
          call' = [op |-> "copy", lhs |-> x, width |-> Width,
                   out |-> Returned(Convert(x, Width))]
    /\ UNCHANGED <<x, y, mutations, terminal>>

\* v is negative, or at most n
At_Most(v, n) ==
    \/ ~ Is_Positive(v)
    \/ /\ \A i \in (kWord_Bits_Cnt + 1)..Len(v.bits) : ~ v.bits[i]
       /\ To_Ullong(v) <= n

\* x is negative, or at most n
Below(n) == At_Most(x, n)

\* x.Factorial().  The running product of a Fixed width keeps its words and
\* that of the Unlimited width stays positive, so the normalizations inside
\* the multiplications copy within bounds
OpFactorial ==
    /\ call = NoCall
    /\ Below(MaxFactorial)
    /\ \E out \in {Factorial(x)} :
          call' = [op |-> "Factorial", lhs |-> x, out |-> out]
    /\ UNCHANGED <<x, y, mutations, terminal>>

\* *this = (expression) that keeps what an exception carries
Assign_Carried(this, out) ==
    IF out.kind \in {"returned", "OverflowException"} THEN out.val ELSE this

\* *this = (expression): nothing is assigned when the expression throws or
\* the program has ended
Assign(this, out) ==
    IF out.kind = "returned" THEN out.val ELSE this

\* the compound assignments
Compound_Ops == {"+=", "-=", "*=", "/=", "%="}

\* what (*this) op rhs can hand back
Compound(op, lhs, rhs) ==
    CASE op = "+=" -> {OperatorPlus(lhs, rhs)}
      [] op = "-=" -> {OperatorMinus(lhs, rhs)}
      [] op = "*=" -> Undefined(Mul_Overrun(lhs, rhs), OperatorMul(lhs, rhs))
      [] op = "/=" -> Undefined(Div_Mod_Overrun(lhs, rhs), OperatorDiv(lhs, rhs))
      [] op = "%=" -> Undefined(Div_Mod_Overrun(lhs, rhs), OperatorMod(lhs, rhs))

\* x op= y: *this = (*this) op rhs, on the x as constructed, for a y the
\* static_assert of Assert_Valid_Assignment_Widths lets through
OpAssign(op) ==
    /\ call = NoCall
    /\ mutations = 0
    /\ mutations < MaxMutations
    /\ y.width <= x.width
    /\ \E out \in Compound(op, x, y) :
          /\ call' = [op |-> op, lhs |-> x, rhs |-> y, out |-> out]
          /\ x' = Assign(x, out)
    /\ mutations' = mutations + 1
    /\ UNCHANGED <<y, terminal>>

\* ++x: *this = (*this) + kOne
OpIncrement ==
    /\ call = NoCall
    /\ mutations < MaxMutations
    /\ \E out \in {OperatorPlus(x, kOne(x.width))} :
          /\ call' = [op |-> "++", lhs |-> x, out |-> out]
          /\ x' = Assign(x, out)
    /\ mutations' = mutations + 1
    /\ UNCHANGED <<y, terminal>>

\* --x: *this = (*this) - kOne
OpDecrement ==
    /\ call = NoCall
    /\ mutations < MaxMutations
    /\ \E out \in {OperatorMinus(x, kOne(x.width))} :
          /\ call' = [op |-> "--", lhs |-> x, out |-> out]
          /\ x' = Assign(x, out)
    /\ mutations' = mutations + 1
    /\ UNCHANGED <<y, terminal>>

\* the caller has used what the operation handed back
Return ==
    /\ call # NoCall
    /\ call' = NoCall
    /\ UNCHANGED <<x, y, mutations, terminal>>

(***************************************************************************)
(* The terminal MPTerm<Number>.  Run reads lines; each line is stripped,   *)
(* parsed into an operation and executed on the numbers of the bank, and   *)
(* what came of it is written to the output stream.  What is written is    *)
(* kept as the sequence of insertions, each a tuple of its pieces.         *)
(***************************************************************************)
kBank_Size == 5

kWhitespaces == {" ", "\t", "\n", "\r"}

\* the characters \s of the patterns stands for
Regex_Spaces == kWhitespaces \cup {"\f"}

Exit_Line == <<"e", "x", "i", "t">>

Bank_Cmd == <<"b", "a", "n", "k">>

\* the symbols [\+\-\*\/%] of the binary pattern
Op_Syms == {"+", "-", "*", "/", "%"}

\* str without the characters of spaces at its two ends
Strip(str, spaces) ==
    LET inside == {i \in 1..Len(str) : str[i] \notin spaces}
    IN IF inside = {} THEN <<>>
       ELSE SubSeq(str, CHOOSE i \in inside : \A j \in inside : i <= j,
                        CHOOSE i \in inside : \A j \in inside : j <= i)

Strip_Whitespaces(str) == Strip(str, kWhitespaces)

\* (\$[1-5])
Is_Bank_Sym(sym) ==
    /\ Len(sym) = 2
    /\ sym[1] = "$"
    /\ sym[2] \in {"1", "2", "3", "4", "5"}

\* (0|-?[1-9]\d*)
Is_Literal_Sym(sym) ==
    \/ sym = <<"0">>
    \/ LET digits == IF sym # <<>> /\ Head(sym) = "-" THEN Tail(sym) ELSE sym
       IN /\ digits # <<>>
          /\ Head(digits) \in {Digits[i] : i \in 2..10}
          /\ \A i \in 1..Len(digits) : digits[i] \in {Digits[j] : j \in 1..10}

Is_Sym(sym) == Is_Bank_Sym(sym) \/ Is_Literal_Sym(sym)

Invalid_Argument(msg) == [kind |-> "invalid_argument", msg |-> msg]

Out_Of_Range(msg) == [kind |-> "out_of_range", msg |-> msg]

\* std::regex_match(cmd, match, binary_op_pattern): the ways cmd is a symbol,
\* spaces, an operator, spaces and a symbol
Binary_Matches(cmd) ==
    { [kind     |-> "binary",
       num1_sym |-> Strip(SubSeq(cmd, 1, i - 1), Regex_Spaces),
       op_sym   |-> cmd[i],
       num2_sym |-> Strip(SubSeq(cmd, i + 1, Len(cmd)), Regex_Spaces)] :
      i \in {j \in 2..(Len(cmd) - 1) :
                /\ cmd[j] \in Op_Syms
                /\ cmd[1] \notin Regex_Spaces
                /\ cmd[Len(cmd)] \notin Regex_Spaces
                /\ Is_Sym(Strip(SubSeq(cmd, 1, j - 1), Regex_Spaces))
                /\ Is_Sym(Strip(SubSeq(cmd, j + 1, Len(cmd)), Regex_Spaces))} }

\* the operation of a command, or the std::invalid_argument thrown for it
Parse_Cmd(cmd) ==
    IF cmd = Bank_Cmd THEN [kind |-> "bank"]
    ELSE IF \E i \in 1..Len(cmd) : cmd[i] = "!"
    THEN IF cmd[Len(cmd)] = "!" /\ Is_Sym(SubSeq(cmd, 1, Len(cmd) - 1))
         THEN [kind |-> "factorial", num_sym |-> SubSeq(cmd, 1, Len(cmd) - 1)]
         ELSE Invalid_Argument("Invalid Command Format")
    ELSE IF Binary_Matches(cmd) = {} THEN Invalid_Argument("Invalid Command Format")
    ELSE CHOOSE match \in Binary_Matches(cmd) : TRUE

\* Get_Number that takes a slot one past the last for filled
Get_Number_Past(b, sym, Width) ==
    IF Head(sym) = "$"
    THEN IF Len(b) + 1 < DigitValue(sym[2]) THEN Out_Of_Range("Out Of Bank Range")
         ELSE Returned(b[IF DigitValue(sym[2]) > Len(b) THEN Len(b) ELSE DigitValue(sym[2])])
    ELSE Deserialize(Width, sym)

\* mpterm.Get_Number(sym), on the bank b of a terminal of Integer<Width>
Get_Number(b, sym, Width) ==
    IF Head(sym) = "$"
    THEN IF Len(b) < DigitValue(sym[2]) THEN Out_Of_Range("Out Of Bank Range")
         ELSE Returned(b[DigitValue(sym[2])])
    ELSE Deserialize(Width, sym)

\* Save_Result that drops the oldest result one save late
Save_Result_Late(b, number) ==
    <<number>> \o (IF Len(b) > kBank_Size THEN SubSeq(b, 1, Len(b) - 1) ELSE b)

\* mpterm.Save_Result(number)
Save_Result(b, number) ==
    <<number>> \o (IF Len(b) >= kBank_Size THEN SubSeq(b, 1, Len(b) - 1) ELSE b)

\* what num1 op num2 can hand back
Num_Op(op_sym, num1, num2) ==
    CASE op_sym = "+" -> {OperatorPlus(num1, num2)}
      [] op_sym = "-" -> {OperatorMinus(num1, num2)}
      [] op_sym = "*" -> Undefined(Mul_Overrun(num1, num2), OperatorMul(num1, num2))
      [] op_sym = "/" -> Undefined(Div_Mod_Overrun(num1, num2), OperatorDiv(num1, num2))
      [] op_sym = "%" -> Undefined(Div_Mod_Overrun(num1, num2), OperatorMod(num1, num2))

\* op(mpterm.Get_Number(num1_sym), mpterm.Get_Number(num2_sym)): which argument
\* is evaluated first is the compiler's choice, and the first that throws is
\* what the command throws
Binary_Result(b, Width, op) ==
    Let(Get_Number(b, op.num1_sym, Width), LAMBDA num1 :
    Let(Get_Number(b, op.num2_sym, Width), LAMBDA num2 :
        IF num1.kind = "returned" /\ num2.kind = "returned"
        THEN Num_Op(op.op_sym, num1.val, num2.val)
        ELSE {num \in {num1, num2} : num.kind # "returned"}))

\* mpterm.Get_Number(num_sym).Factorial()
Factorial_Result(b, Width, op) ==
    Let(Get_Number(b, op.num_sym, Width), LAMBDA num :
        IF num.kind = "returned" THEN {Factorial(num.val)} ELSE {num})

\* Prompt()
Prompt == <<"> ">>

\* _ostream << "$" << (i + 1) << " = " << mpterm._bank[i] << std::endl
Result_Line(i, text) == <<"$", i, " = ", text, "\n">>

\* ostream << "[ERROR] " << e.what() << std::endl
Error_Line(what) == <<"[ERROR] ", what, "\n">>

\* Run goes on to the prompt with the bank b, having written this; handed is
\* what the operation handed back, if it did
Going(b, written, handed) ==
    [bank |-> b, ostream |-> written \o <<Prompt>>, session |-> "reading", handed |-> handed]

\* the program has ended inside the command
Gone(b, how, handed) == [bank |-> b, ostream |-> <<>>, session |-> how, handed |-> handed]

\* a catch block that keeps the result an exception carries
Bank_After_Catch_Carried(b, e) ==
    IF e.kind = "OverflowException" THEN Save_Result(b, e.val) ELSE b

\* the bank when the catch block is entered: the lambdas save after the
\* operation has handed its result back, the catch block saves nothing
Bank_After_Catch(b, e) == b

\* catch (const std::exception &e); OverflowException has built its message
\* with Serialize in a noexcept constructor
Catch(b, e) ==
    IF e.kind = "OverflowException"
    THEN Let(Serialize(e.val), LAMBDA text :
             IF text.kind # "returned" THEN Gone(b, "terminated", <<>>)
             ELSE Going(Bank_After_Catch(b, e),
                        <<Error_Line(<<"Overflow Detected [", text.str, "]">>)>>, <<>>))
    ELSE Going(Bank_After_Catch(b, e), <<Error_Line(<<e.msg>>)>>, <<>>)

\* mpterm.Save_Result(result); mpterm.Print_Latest_Result(); for what the
\* operation handed back
Complete(b, out) ==
    CASE out.kind = "returned" ->
            Let(Save_Result(b, out.val), LAMBDA after :
            Let(Serialize(after[1]), LAMBDA text :
                IF text.kind # "returned" THEN Gone(after, "terminated", <<out.val>>)
                ELSE Going(after, <<Result_Line(1, text.str)>>, <<out.val>>)))
      [] out.kind = "crashed" -> Gone(b, "crashed", <<>>)
      [] OTHER -> Catch(b, out)

\* the operation of the command bank
List_Bank(b) ==
    Let([i \in 1..Len(b) |-> Serialize(b[i])], LAMBDA texts :
        IF \E i \in 1..Len(b) : texts[i].kind # "returned" THEN Gone(b, "terminated", <<>>)
        ELSE Going(b, [i \in 1..Len(b) |-> Result_Line(i, texts[i].str)], <<>>))

\* op = Parse_Cmd(cmd); op(mpterm); with the catch block around them
Execute(b, Width, cmd) ==
    Let(Parse_Cmd(cmd), LAMBDA op :
        CASE op.kind = "invalid_argument" -> {Catch(b, op)}
          [] op.kind = "bank" -> {List_Bank(b)}
          [] op.kind = "factorial" ->
                {Complete(b, out) : out \in Factorial_Result(b, Width, op)}
          [] op.kind = "binary" ->
                {Complete(b, out) : out \in Binary_Result(b, Width, op)})

\* the widths of Number: MPTerm<Integer<Width>> for a Fixed width, which
\* main runs with Width = 32, and for the Unlimited one
Numbers == {kWidth_Min, kUnlimited}

\* the inputs the terminal is run on: each a sequence of lines, after which
\* istream is at its end
Inputs ==
    { \* the results of six commands and more, listed
      << <<"3", "!">>,
        <<"$", "1", " ", "+", " ", "$", "1">>,
        <<"$", "1", " ", "*", " ", "$", "2">>,
        <<"b", "a", "n", "k">>,
        <<"$", "3", " ", "-", " ", "$", "1">>,
        <<" ", "$", "2", " ", "/", " ", "$", "4">>,
        <<"$", "5", " ", "%", " ", "$", "2", " ">>,
        <<"b", "a", "n", "k">>,
        <<"$", "5", "*", "$", "4">>,
        <<"e", "x", "i", "t">> >>,
      \* commands that fail, among two that succeed
      << <<>>,
        <<" ">>,
        <<"3", " ", "+">>,
        <<"$", "1", "!">>,
        <<"3", "!">>,
        <<"-", "3", "!">>,
        <<"$", "2", " ", "+", " ", "1">>,
        <<"1", " ", "/", " ", "0">>,
        <<"4", "2", "9", "4", "9", "6", "7", "2", "9", "6", "%", "$", "3">>,
        <<"2", "1", "4", "7", "4", "8", "3", "6", "4", "7", " ", "+", " ", "$", "1">>,
        <<" ", "e", "x", "i", "t">>,
        <<"b", "a", "n", "k">> >>,
      \* the most negative number of four words, then divided
      << <<"0", "!">>,
        <<"-", "2", "1", "4", "7", "4", "8", "3", "6", "4", "7", " ", "-", " ", "$", "1">>,
        <<"$", "1", " ", "/", " ", "$", "2">>,
        <<"b", "a", "n", "k">>,
        <<"e", "x", "i", "t">> >>,
      \* a factorial beyond four words
      << <<"1", "3", "!">>,
        <<"$", "1", " ", "*", " ", "$", "1">>,
        <<"b", "a", "n", "k">> >>,
      \* no line at all
      <<>>,
      \* exit at once
      << <<"e", "x", "i", "t">>,
        <<"3", "!">> >>,
      \* negative results
      << <<"5", " ", "-", " ", "7">>,
        <<"$", "1", "!">>,
        <<"$", "1", " ", "*", " ", "$", "1">>,
        <<"$", "2", " ", "%", " ", "$", "1">>,
        <<"$", "6", " ", "+", " ", "1">>,
        <<"$", "5", " ", "+", " ", "1">>,
        <<"0", " ", "/", " ", "$", "3">>,
        <<"b", "a", "n", "k">> >>,
      \* two operands that fail
      << <<"$", "2", " ", "+", " ", "$", "3">>,
        <<"4", "2", "9", "4", "9", "6", "7", "2", "9", "6", " ", "-", " ", "9", "9", "9", "9", "9", "9", "9", "9", "9", "9", "9">>,
        <<"$", "1", " ", "/", " ", "0">>,
        <<"7", " ", "/", " ", "2">>,
        <<"$", "1", " ", "/", " ", "0">>,
        <<"-", "7", " ", "%", " ", "2">>,
        <<"b", "a", "n", "k">> >> }

\* main has chosen mode 1 or 2: MPTerm<Number>::Run is about to be called
InitTerminal ==
    /\ Number \in Numbers
    /\ x = Integer(Number)
    /\ y = Integer(Number)
    /\ mutations = 0
    /\ call = NoCall
    /\ bank = <<>>
    /\ ostream = <<>>
    /\ session = "constructed"
    /\ line = <<>>
    /\ istream \in Inputs
    /\ results = <<>>

\* MPTerm<Number> mpterm{ostream}; mpterm.Prompt();
Run_Begin ==
    /\ session = "constructed"
    /\ session' = "reading"
    /\ ostream' = <<Prompt>>
    /\ UNCHANGED <<Number, bank, line, istream, results, objects>>

\* std::getline reads an empty line
Read_Empty ==
    /\ session = "reading"
    /\ istream # <<>>
    /\ Head(istream) = <<>>
    /\ line' = Head(istream)
    /\ istream' = Tail(istream)
    /\ ostream' = <<Prompt>>
    /\ UNCHANGED <<Number, bank, session, results, objects>>

\* std::getline reads the line exit
Read_Exit ==
    /\ session = "reading"
    /\ istream # <<>>
    /\ Head(istream) = Exit_Line
    /\ line' = Head(istream)
    /\ istream' = Tail(istream)
    /\ ostream' = <<>>
    /\ session' = "exited"
    /\ UNCHANGED <<Number, bank, results, objects>>

\* std::getline finds the input at its end
End_Of_Input ==
    /\ session = "reading"
    /\ istream = <<>>
    /\ ostream' = <<>>
    /\ session' = "ended"
    /\ UNCHANGED <<Number, bank, line, istream, results, objects>>

\* std::getline reads any other line: one turn of the loop of Run
Read_Command ==
    /\ session = "reading"
    /\ istream # <<>>
    /\ Head(istream) \notin {<<>>, Exit_Line}
    /\ \E step \in Execute(bank, Number, Strip_Whitespaces(Head(istream))) :
          /\ line' = Head(istream)
          /\ istream' = Tail(istream)
          /\ bank' = step.bank
          /\ ostream' = step.ostream
          /\ session' = step.session
          /\ results' = step.handed \o results
    /\ UNCHANGED <<Number, objects>>

Next ==
    \/ Construct_x
    \/ Construct_n
    \/ Construct_y
    \/ Construct_y_as_x
    \/ OpPlus
    \/ OpMinus
    \/ OpEquals
    \/ OpNotEquals
    \/ OpTimes
    \/ OpDivide
    \/ OpModulo
    \/ OpNegate
    \/ OpSerialize
    \/ OpFactorial
    \/ OpCopy
    \/ \E op \in Compound_Ops : OpAssign(op)
    \/ OpIncrement
    \/ OpDecrement
    \/ Return
    \/ Run_Begin
    \/ Read_Empty
    \/ Read_Exit
    \/ Read_Command
    \/ End_Of_Input

Spec == Init /\ [][Next]_vars

\* the caller only adds, subtracts and negates
NextSum ==
    \/ Construct_x
    \/ Construct_y
    \/ OpPlus
    \/ OpMinus
    \/ OpNegate
    \/ OpIncrement
    \/ OpDecrement
    \/ Return

SpecSum == Init /\ [][NextSum]_vars

\* the caller only multiplies
NextMul ==
    \/ Construct_x
    \/ Construct_y
    \/ OpTimes
    \/ OpIncrement
    \/ OpDecrement
    \/ Return

SpecMul == Init /\ [][NextMul]_vars

\* the caller only divides
NextDiv ==
    \/ Construct_x
    \/ Construct_y
    \/ OpDivide
    \/ OpModulo
    \/ OpIncrement
    \/ OpDecrement
    \/ Return

SpecDiv == Init /\ [][NextDiv]_vars

\* the caller only prints x
NextText ==
    \/ Construct_x
    \/ OpSerialize
    \/ OpIncrement
    \/ OpDecrement
    \/ Return

SpecText == Init /\ [][NextText]_vars

\* the caller only asks for factorials of x
NextFactorial ==
    \/ Construct_x
    \/ Construct_n
    \/ OpFactorial
    \/ OpIncrement
    \/ OpDecrement
    \/ Return

SpecFactorial == Init /\ [][NextFactorial]_vars

\* the caller only copies x into objects of its width and of wider ones
NextCopy ==
    \/ Construct_x
    \/ OpCopy
    \/ OpIncrement
    \/ OpDecrement
    \/ Return

SpecCopy == Init /\ [][NextCopy]_vars

\* the caller only compares
NextCompare ==
    \/ Construct_x
    \/ Construct_y
    \/ Construct_y_as_x
    \/ OpEquals
    \/ OpNotEquals
    \/ OpIncrement
    \/ OpDecrement
    \/ Return

SpecCompare == Init /\ [][NextCompare]_vars

\* the caller assigns to x, and adds, negates and compares
NextAssign ==
    \/ Construct_x
    \/ Construct_y
    \/ OpPlus
    \/ OpNegate
    \/ OpEquals
    \/ \E op \in Compound_Ops : OpAssign(op)
    \/ OpIncrement
    \/ OpDecrement
    \/ Return

SpecAssign == Init /\ [][NextAssign]_vars

\* main runs the terminal
NextTerminal ==
    \/ Run_Begin
    \/ Read_Empty
    \/ Read_Exit
    \/ Read_Command
    \/ End_Of_Input

SpecTerminal == InitTerminal /\ [][NextTerminal]_vars

(***************************************************************************)
(* The integers the objects stand for.  TLC's own integers are too narrow, *)
(* so a mathematical integer is a sign and a decimal magnitude, least      *)
(* significant digit first, without leading zeros.                         *)
(***************************************************************************)
Mag_Trim(m) ==
    LET Cond(s) == Len(s) > 0 /\ s[Len(s)] = 0
        Body(s) == SubSeq(s, 1, Len(s) - 1)
    IN While(Cond, Body, m)

Mag_Digit(m, i) == IF i <= Len(m) THEN m[i] ELSE 0

Mag_Add(a, b) ==
    LET n        == Get_Max(Len(a), Len(b))
        Cond(st) == st.i <= n
        Body(st) == LET t == Mag_Digit(a, st.i) + Mag_Digit(b, st.i) + st.carry
                    IN [i |-> st.i + 1, carry |-> t \div 10, out |-> Append(st.out, t % 10)]
        end      == While(Cond, Body, [i |-> 1, carry |-> 0, out |-> <<>>])
    IN IF end.carry > 0 THEN Append(end.out, end.carry) ELSE end.out

Mag_Less(a, b) ==
    IF Len(a) # Len(b) THEN Len(a) < Len(b)
    ELSE \E i \in 1..Len(a) : a[i] < b[i] /\ \A j \in (i + 1)..Len(a) : a[j] = b[j]

\* a - b, for a >= b
Mag_Sub(a, b) ==
    LET Cond(st) == st.i <= Len(a)
        Body(st) == LET t == a[st.i] - Mag_Digit(b, st.i) - st.borrow
                    IN [i |-> st.i + 1, borrow |-> IF t < 0 THEN 1 ELSE 0,
                        out |-> Append(st.out, (t + 10) % 10)]
    IN Mag_Trim(While(Cond, Body, [i |-> 1, borrow |-> 0, out |-> <<>>]).out)

\* the column sum of the long multiplication: the a[i] * b[k + 1 - i]
Mag_Column(a, b, k) ==
    LET Cond(st) == st.i <= Len(a)
        Body(st) == [i |-> st.i + 1,
                     sum |-> st.sum + (IF k + 1 - st.i >= 1 THEN a[st.i] * Mag_Digit(b, k + 1 - st.i) ELSE 0)]
    IN While(Cond, Body, [i |-> 1, sum |-> 0]).sum

Mag_Mul(a, b) ==
    LET n        == Len(a) + Len(b)
        Cond(st) == st.k <= n
        Body(st) == LET t == Mag_Column(a, b, st.k) + st.carry
                    IN [k |-> st.k + 1, carry |-> t \div 10, out |-> Append(st.out, t % 10)]
    IN Mag_Trim(While(Cond, Body, [k |-> 1, carry |-> 0, out |-> <<>>]).out)

\* n times a, for a small n
Mag_Scale(a, n) ==
    LET Cond(st) == st.i <= Len(a) \/ st.carry > 0
        Body(st) == LET t == Mag_Digit(a, st.i) * n + st.carry
                    IN [i |-> st.i + 1, carry |-> t \div 10, out |-> Append(st.out, t % 10)]
    IN Mag_Trim(While(Cond, Body, [i |-> 1, carry |-> 0, out |-> <<>>]).out)

\* the quotient and the remainder of a by b, for b > 0, by long division
Mag_Div(a, b) ==
    Let(Vector([n \in 1..11 |-> Mag_Scale(b, n - 1)]), LAMBDA multiple :
        LET Cond(st) == st.i >= 1
            Body(st) ==
                Let(Mag_Trim(<<a[st.i]>> \o st.rem), LAMBDA cur :
                Let(CHOOSE n \in 0..9 : /\ ~ Mag_Less(cur, multiple[n + 1])
                                        /\ Mag_Less(cur, multiple[n + 2]), LAMBDA d :
                    [i |-> st.i - 1, rem |-> Mag_Sub(cur, multiple[d + 1]),
                     quot |-> <<d>> \o st.quot]))
        IN Let(While(Cond, Body, [i |-> Len(a), rem |-> <<>>, quot |-> <<>>]), LAMBDA end :
               [quot |-> Mag_Trim(end.quot), rem |-> end.rem]))

Z(neg, mag) == [neg |-> neg /\ mag # <<>>, mag |-> mag]

Z_Zero == Z(FALSE, <<>>)

Z_Neg(a) == Z(~ a.neg, a.mag)

Z_Add(a, b) ==
    IF a.neg = b.neg THEN Z(a.neg, Mag_Add(a.mag, b.mag))
    ELSE IF Mag_Less(a.mag, b.mag) THEN Z(b.neg, Mag_Sub(b.mag, a.mag))
    ELSE Z(a.neg, Mag_Sub(a.mag, b.mag))

Z_Sub(a, b) == Z_Add(a, Z_Neg(b))

Z_Mul(a, b) == Z(a.neg # b.neg, Mag_Mul(a.mag, b.mag))

\* the quotient truncated toward zero, for b # 0
Z_Div(a, b) == Z(a.neg # b.neg, Mag_Div(a.mag, b.mag).quot)

\* 2^n
Mag_Pow2(n) ==
    LET Cond(st) == st.i < n
        Body(st) == [i |-> st.i + 1, mag |-> Mag_Add(st.mag, st.mag)]
    IN While(Cond, Body, [i |-> 0, mag |-> <<1>>]).mag

\* the bits read as an unsigned number
Mag_Of(bits) ==
    LET Cond(st) == st.i >= 1
        Body(st) == LET twice == Mag_Add(st.mag, st.mag)
                    IN [i |-> st.i - 1,
                        mag |-> IF bits[st.i] THEN Mag_Add(twice, <<1>>) ELSE twice]
    IN While(Cond, Body, [i |-> Len(bits), mag |-> <<>>]).mag

\* the value of an object: its stored words read in two's complement
Value(v) ==
    IF v.bits[Len(v.bits)]
    THEN Z(TRUE, Mag_Sub(Mag_Pow2(Len(v.bits)), Mag_Of(v.bits)))
    ELSE Z(FALSE, Mag_Of(v.bits))

\* z lies in the range of the width
Representable(z, width) ==
    \/ Is_Unlimited(width)
    \/ LET half == Mag_Pow2(width * kWord_Bits_Cnt - 1)
       IN IF z.neg THEN ~ Mag_Less(half, z.mag) ELSE Mag_Less(z.mag, half)

\* an object laid out as its width says
WellFormed(v) ==
    /\ Len(v.bits) % kWord_Bits_Cnt = 0
    /\ IF Is_Limited(v.width) THEN Words(v) = v.width ELSE Words(v) >= kWidth_Min

\* the number a decimal string denotes
Z_Parse(str) ==
    LET signed == str[1] \in {"+", "-"}
        digits == IF signed THEN Tail(str) ELSE str
        n      == Len(digits)
    IN Z(str[1] = "-", Mag_Trim([i \in 1..n |-> DigitValue(digits[n + 1 - i])]))

(***************************************************************************)
(* What the operations are stated to do.                                   *)
(***************************************************************************)
Result_Width_Of(c) == Get_Max(c.lhs.width, c.rhs.width)

\* the call in progress is lhs op rhs
Calling(op) == call.op = op

\* the call handed back exactly the number z
Returns(z) == call.out.kind = "returned" /\ Value(call.out.val) = z

\* what an operation stated to be exact does with the number z it should produce
Exact(z) ==
    IF Representable(z, Result_Width_Of(call)) THEN Returns(z)
    ELSE call.out.kind = "OverflowException"

\* C1: x + y returns the exact sum whenever the sum is representable in the
\* wider of the two widths (always, for an Unlimited result), and a Fixed
\* result raises OverflowException exactly when the sum is not representable.
C1_SumExact ==
    Calling("+") => Exact(Z_Add(Value(call.lhs), Value(call.rhs)))

\* C1: a sum of a Fixed(4) and a Fixed(5) operand that does not fit was raised
C1_Witness ==
    /\ Calling("+")
    /\ call.lhs.width # call.rhs.width
    /\ Is_Limited(Result_Width_Of(call))
    /\ ~ Representable(Z_Add(Value(call.lhs), Value(call.rhs)), Result_Width_Of(call))
    /\ call.out.kind = "OverflowException"

\* the objects a state holds: the two operands and what the call handed back
Objects ==
    {x, y} \cup (IF call.op # "none" /\ call.out.kind \in {"returned", "OverflowException"}
                 THEN {call.out.val} ELSE {})

\* C2: every object of a Fixed(n) width has exactly n words, the results of
\* operations on operands of different widths and the zero quotient of zero
\* by a wider operand included.
C2_FixedWords ==
    \A v \in Objects : Is_Limited(v.width) => Words(v) = v.width

\* C3: a product of Fixed operands that is not representable in the result
\* width raises OverflowException; none is returned wrapped.
C3_ProductOverflowRaised ==
    ( /\ Calling("*")
      /\ Is_Limited(Result_Width_Of(call))
      /\ ~ Representable(Z_Mul(Value(call.lhs), Value(call.rhs)), Result_Width_Of(call)) )
    => call.out.kind = "OverflowException"

\* C4: a product of Fixed operands that is representable in the result width
\* is returned, the most negative value times one included.
C4_ProductReturned ==
    ( /\ Calling("*")
      /\ Is_Limited(Result_Width_Of(call))
      /\ Representable(Z_Mul(Value(call.lhs), Value(call.rhs)), Result_Width_Of(call)) )
    => Returns(Z_Mul(Value(call.lhs), Value(call.rhs)))

\* C5: the product of two Unlimited operands, of any word lengths and bit
\* patterns, is returned exact.
C5_UnlimitedProductExact ==
    ( /\ Calling("*")
      /\ Is_Unlimited(call.lhs.width)
      /\ Is_Unlimited(call.rhs.width) )
    => Returns(Z_Mul(Value(call.lhs), Value(call.rhs)))

\* C6: x - y returns the exact difference whenever it is representable in
\* the wider of the two widths, and a Fixed result raises OverflowException
\* exactly when it is not; y may be the most negative value of its width and
\* narrower than x.
C6_DifferenceExact ==
    Calling("-") => Exact(Z_Sub(Value(call.lhs), Value(call.rhs)))

\* the divisor of the call is not zero
NonZeroDivisor == Value(call.rhs) # Z_Zero

\* C7: for y # 0, with q = x / y and r = x % y, q * y + r == x under the
\* library's own equality (stated for the quotients laid out as their width
\* says, which the library can multiply).
C7_DivisionIdentity ==
    ( /\ Calling("/")
      /\ NonZeroDivisor
      /\ call.out.kind = "returned"
      /\ WellFormed(call.out.val) )
    => LET r       == OperatorMod(call.lhs, call.rhs)
           product == OperatorMul(call.out.val, call.rhs)
       IN /\ r.kind = "returned"
          /\ product.kind = "returned"
          /\ LET sum == OperatorPlus(product.val, r.val)
             IN sum.kind = "returned" /\ Equals(sum.val, call.lhs)

\* C8: for y # 0, whenever the quotient truncated toward zero is
\* representable in the result width, x / y returns it and raises nothing,
\* also when x or y is the most negative Fixed value.
C8_TruncatedQuotient ==
    ( /\ Calling("/")
      /\ NonZeroDivisor
      /\ Representable(Z_Div(Value(call.lhs), Value(call.rhs)), Result_Width_Of(call)) )
    => Returns(Z_Div(Value(call.lhs), Value(call.rhs)))

\* C9: x / y and x % y with a zero y fail with the ArithmeticException
\* "Division By Zero" and hand back nothing, whatever x is: the divisor is
\* tested before the dividend, so zero by zero fails too.
C9_DivisionByZero ==
    ((Calling("/") \/ Calling("%")) /\ ~ NonZeroDivisor)
    => call.out = ArithmeticException("Division By Zero")

\* C9: zero was divided by zero, and the call failed
C9_Witness ==
    /\ Calling("/")
    /\ Value(call.lhs) = Z_Zero
    /\ Value(call.rhs) = Z_Zero
    /\ call.out.kind = "ArithmeticException"

\* C10: constructing a Fixed(n) object from a decimal string whose value
\* exceeds 2^(8n-1)-1 raises OverflowException; no such string is decoded.
C10_StringOverflowRaised ==
    ( /\ Calling("Deserialize")
      /\ Is_Limited(call.width)
      /\ ~ Z_Parse(call.str).neg
      /\ ~ Representable(Z_Parse(call.str), call.width) )
    => call.out.kind = "OverflowException"

\* the decimal text of a number
Z_Text(z) ==
    LET n == Len(z.mag)
    IN IF n = 0 THEN <<"0">>
       ELSE (IF z.neg THEN <<"-">> ELSE <<>>)
            \o [i \in 1..n |-> Digits[z.mag[n + 1 - i] + 1]]

\* C11: Deserialize(Serialize(x)), at the width of x, returns a value equal to
\* x and raises nothing, for every x of every width, the most negative Fixed
\* value included.
C11_RoundTrip ==
    (Calling("Serialize") /\ call.out.kind = "returned")
    => Let(Deserialize(call.lhs.width, call.out.str), LAMBDA back :
           back.kind = "returned" /\ Equals(back.val, call.lhs))

\* C12: Serialize(x) terminates and returns the canonical decimal text of the
\* value of x: "0" for zero, otherwise '-' exactly when x is negative, then
\* the digits of |x| without a leading zero; also for the most negative Fixed
\* value and for Unlimited values stored with more words than they need.
C12_CanonicalText ==
    Calling("Serialize") => call.out = Text(Z_Text(Value(call.lhs)))

\* C12: the most negative Fixed(4) value was printed
C12_Witness ==
    /\ Calling("Serialize")
    /\ call.lhs.width = kWidth_Min
    /\ Value(call.lhs) = Z(TRUE, Mag_Pow2(kWidth_Min * kWord_Bits_Cnt - 1))
    /\ call.out.kind = "returned"

\* the number a non-negative z of at most two digits is
Z_Small(z) == Mag_Digit(z.mag, 1) + 10 * Mag_Digit(z.mag, 2)

\* n!
Z_Factorial(n) ==
    LET Cond(st) == st.i <= n
        Body(st) == [i |-> st.i + 1, mag |-> Mag_Scale(st.mag, st.i)]
    IN Z(FALSE, While(Cond, Body, [i |-> 2, mag |-> <<1>>]).mag)

\* z reduced modulo 2^(8 width) and read as a two's-complement number of
\* width bytes
Z_Wrap(z, width) ==
    Let(Mag_Pow2(width * kWord_Bits_Cnt), LAMBDA modulus :
    Let(Mag_Pow2(width * kWord_Bits_Cnt - 1), LAMBDA half :
    Let(Mag_Div(z.mag, modulus).rem, LAMBDA rem :
    Let(IF z.neg /\ rem # <<>> THEN Mag_Sub(modulus, rem) ELSE rem, LAMBDA low :
        IF Mag_Less(low, half) THEN Z(FALSE, low) ELSE Z(TRUE, Mag_Sub(modulus, low))))))

\* the factorial of the operand of the call
Factorial_Of_Operand == Z_Factorial(Z_Small(Value(call.lhs)))

\* C13: for a non-negative n, n.Factorial() returns exactly n! whenever n! is
\* representable in the width of n, always for Unlimited; 0! = 1! = 1.
C13_FactorialExact ==
    ( /\ Calling("Factorial")
      /\ ~ Value(call.lhs).neg
      /\ Let(Factorial_Of_Operand, LAMBDA f : Representable(f, call.lhs.width)) )
    => Let(Factorial_Of_Operand, LAMBDA f : Returns(f))

\* C13: 12! was computed in Fixed(4), the largest factorial that fits
C13_Witness ==
    /\ Calling("Factorial")
    /\ call.lhs.width = kWidth_Min
    /\ Value(call.lhs) = Z(FALSE, <<2, 1>>)
    /\ call.out.kind = "returned"

C15_FactorialOfNegative ==
    (Calling("Factorial") /\ Value(call.lhs).neg)
    => call.out = ArithmeticException("Factorial Of Negative Number")

\* C15: the factorial of the most negative Fixed(4) value was asked for
C15_Witness ==
    /\ Calling("Factorial")
    /\ call.lhs.width = kWidth_Min
    /\ Value(call.lhs) = Z(TRUE, Mag_Pow2(kWidth_Min * kWord_Bits_Cnt - 1))
    /\ call.out.kind = "ArithmeticException"

\* the number the arithmetic call in progress should produce
Exact_Result ==
    CASE call.op = "+"  -> Z_Add(Value(call.lhs), Value(call.rhs))
      [] call.op = "-"  -> Z_Sub(Value(call.lhs), Value(call.rhs))
      [] call.op = "*"  -> Z_Mul(Value(call.lhs), Value(call.rhs))
      [] call.op = "++" -> Z_Add(Value(call.lhs), Z(FALSE, <<1>>))
      [] call.op = "--" -> Z_Sub(Value(call.lhs), Z(FALSE, <<1>>))

\* the width of its result
Exact_Width ==
    IF call.op \in {"++", "--"} THEN call.lhs.width ELSE Result_Width_Of(call)

\* C16: whenever +, -, *, ++ or -- on Fixed(W) operands raises
\* OverflowException, the Integer it carries is the exact result reduced
\* modulo 2^(8W) and read as a W-byte two's-complement number.
C16_CarriedTruncated ==
    ( /\ call.op \in {"+", "-", "*", "++", "--"}
      /\ call.out.kind = "OverflowException"
      /\ Is_Limited(Exact_Width) )
    => Let(Exact_Result, LAMBDA z : Value(call.out.val) = Z_Wrap(z, Exact_Width))

\* C17: copy-constructing a value of a narrower width into a wider one (Fixed
\* into a wider Fixed, or Fixed into Unlimited) yields an object that is
\* sign-extended to the storage length of its width, has the numeric value of
\* the source and compares equal to it.
C17_WideningCopy ==
    (Calling("copy") /\ call.width > call.lhs.width)
    => /\ WellFormed(call.out.val)
       /\ Value(call.out.val) = Value(call.lhs)
       /\ Equals(call.out.val, call.lhs)

\* C18: x + (-x) returns a zero value and raises nothing, for every x of every
\* width, the most negative Fixed value included.
C18_AdditiveInverse ==
    (Calling("neg") /\ call.out.kind = "returned")
    => Let(OperatorPlus(call.lhs, call.out.val), LAMBDA sum :
           sum.kind = "returned" /\ Equals(sum.val, kZero(call.lhs.width)))

\* two outcomes are the same: both values, equal under the library's equality,
\* or both the same exception carrying equal results
SameOutcome(a, b) ==
    /\ a.kind = b.kind
    /\ a.kind \in {"returned", "OverflowException"} => Equals(a.val, b.val)

\* C19: x + y and y + x have the same outcome, and so have x * y and y * x:
\* both return equal values or both raise OverflowException carrying equal
\* truncated results.
C19_Commutative ==
    /\ Calling("+") =>
          Let(OperatorPlus(call.rhs, call.lhs), LAMBDA swapped : SameOutcome(call.out, swapped))
    /\ Calling("*") =>
          Let(OperatorMul(call.rhs, call.lhs), LAMBDA swapped :
              \E out \in Undefined(Mul_Overrun(call.rhs, call.lhs), swapped) :
                 SameOutcome(call.out, out))

\* C20: -(-x) == x for every x of every width; for an Unlimited x whose
\* negation needs one more word the first negation grows the storage and the
\* second one still compares equal to x.
C20_NegationInvolution ==
    (Calling("neg") /\ call.out.kind = "returned")
    => Let(OperatorNegate(call.out.val), LAMBDA back :
           back.kind = "returned" /\ Equals(back.val, call.lhs))

\* C20: an Unlimited x of four words was negated into five words
C20_Witness ==
    /\ Calling("neg")
    /\ Is_Unlimited(call.lhs.width)
    /\ Words(call.lhs) = kWidth_Min
    /\ call.out.kind = "returned"
    /\ Words(call.out.val) = kWidth_Min + 1

Command_Read ==
    /\ session = "reading"
    /\ istream # <<>>
    /\ Head(istream) \notin {<<>>, Exit_Line}
    /\ istream' = Tail(istream)

\* the command of the step, stripped and parsed
Command_Op == Parse_Cmd(Strip_Whitespaces(Head(istream)))

\* the command of the step has written one line [ERROR] <message>, then one
\* prompt, and Run goes on reading
Error_Written ==
    /\ session' = "reading"
    /\ Len(ostream') = 2
    /\ Len(ostream'[1]) = 3
    /\ ostream'[1][1] = "[ERROR] "
    /\ ostream'[1][3] = "\n"
    /\ ostream'[2] = Prompt

\* C22: in the terminal loop, every command that fails (it is not bank and
\* hands no result back) writes exactly one line "[ERROR] <message>" and then
\* exactly one prompt "> ", and the loop goes on reading; the session ends
\* only on the line exit or at the end of the input.
C22_ErrorsKeepSession ==
    [][ /\ ( /\ Command_Read
             /\ Command_Op.kind # "bank"
             /\ results' = results )
           => Error_Written
        /\ session' # session
           => \/ session = "constructed" /\ session' = "reading"
              \/ session' = "exited" /\ line' = Exit_Line
              \/ session' = "ended" /\ istream = <<>> ]_vars

\* C23: after any sequence of commands the bank holds the results of the
\* min(5, k) most recent of the k commands that succeeded, the newest first;
\* it never holds more than 5 entries and the command bank does not change it.
C23_BankHoldsLatest ==
    /\ [](/\ Len(bank) <= kBank_Size
          /\ bank = SubSeq(results, 1, IF Len(results) < kBank_Size
                                       THEN Len(results) ELSE kBank_Size))
    /\ [][ (Command_Read /\ Command_Op.kind = "bank") => bank' = bank ]_vars

\* C23: the bank has been listed after more than five results: five lines
\* and the prompt were written
C23_Witness ==
    /\ session = "reading"
    /\ line = Bank_Cmd
    /\ Len(results) > kBank_Size
    /\ Len(bank) = kBank_Size
    /\ bank[kBank_Size] = results[kBank_Size]
    /\ Len(ostream) = kBank_Size + 1

\* the symbols of the operands of a command
Operand_Syms(op) ==
    IF op.kind = "factorial" THEN <<op.num_sym>>
    ELSE IF op.kind = "binary" THEN <<op.num1_sym, op.num2_sym>>
    ELSE <<>>

\* the placeholder sym refers to a slot of b that is not filled
Unfilled(b, sym) == Is_Bank_Sym(sym) /\ Len(b) < DigitValue(sym[2])

\* what the operand sym stands for when $k is the k-th most recent result
Operand(b, sym, Width) ==
    IF Is_Bank_Sym(sym) THEN Returned(b[DigitValue(sym[2])]) ELSE Deserialize(Width, sym)

\* what the operation of op hands back on operands that have been constructed
Operation(op, operands) ==
    IF op.kind = "factorial" THEN {Factorial(operands[1].val)}
    ELSE Num_Op(op.op_sym, operands[1].val, operands[2].val)

\* C24: a placeholder $k evaluates to the k-th most recent stored result when
\* the bank holds at least k results; otherwise the command fails with the
\* error "Out Of Bank Range" and the operation is not evaluated.
C24_PlaceholderOrRange ==
    [][ Command_Read =>
          Let(Command_Op, LAMBDA op :
          Let(Operand_Syms(op), LAMBDA syms :
              IF \E i \in 1..Len(syms) : Unfilled(bank, syms[i])
              THEN /\ ostream' = <<Error_Line(<<"Out Of Bank Range">>), Prompt>>
                   /\ results' = results
              ELSE results' # results
                   => Let([i \in 1..Len(syms) |-> Operand(bank, syms[i], Number)] \o <<>>,
                          LAMBDA operands :
                          /\ \A i \in 1..Len(syms) : operands[i].kind = "returned"
                          /\ Returned(results'[1]) \in Operation(op, operands)))) ]_vars

\* v is stored in the fewest words that hold its value: kWidth_Min of them,
\* or a top word that is not the sign extension of the word below it
Smallest(v) ==
    \/ Words(v) = kWidth_Min
    \/ /\ Words(v) > kWidth_Min
       /\ \E i \in (Get_Actual_Bits_Cnt(v) - kWord_Bits_Cnt + 1)..Get_Actual_Bits_Cnt(v) :
             v.bits[i] # v.bits[Get_Actual_Bits_Cnt(v) - kWord_Bits_Cnt]

\* C25: every Unlimited value returned by +, -, *, /, %, negation or Factorial
\* is stored in the smallest number of words, at least four, that holds it;
\* a zero result has exactly four words.
C25_UnlimitedSmallest ==
    ( /\ call.op \in {"+", "-", "*", "/", "%", "neg", "Factorial"}
      /\ call.out.kind = "returned"
      /\ Is_Unlimited(call.out.val.width) )
    => Smallest(call.out.val)

\* C26: no normalization asked for by a public operation copies a longer
\* vector of words into a shorter one, in Mul and Div_Mod too.
C26_NormalizeWithinBounds ==
    /\ Calling("*") => ~ Mul_Overrun(call.lhs, call.rhs)
    /\ (Calling("/") \/ Calling("%")) => ~ Div_Mod_Overrun(call.lhs, call.rhs)

\* C27: for Fixed x and y # 0, x / y and x % y never raise OverflowException,
\* also when x or y is the most negative value of its width.
C27_DivisionNeverOverflows ==
    ( /\ (Calling("/") \/ Calling("%"))
      /\ Is_Limited(call.lhs.width)
      /\ Is_Limited(call.rhs.width)
      /\ NonZeroDivisor )
    => call.out.kind # "OverflowException"

\* the operations that hand back a result, and those that assign to x
Pure_Ops == {"+", "-", "*", "/", "%", "neg", "==", "!=", "Factorial", "Serialize", "copy"}

Assigning_Ops == Compound_Ops \cup {"++", "--"}

C29_FailureKeepsBank ==
    [][ Command_Read =>
          /\ Error_Written => (bank' = bank /\ results' = results)
          /\ bank' # bank => (results' # results /\ bank'[1] = results'[1]) ]_vars

\* C29: a command has failed with an overflow on a bank that holds a result
C29_Witness ==
    /\ session = "reading"
    /\ bank # <<>>
    /\ Len(ostream) = 2
    /\ ostream[1][1] = "[ERROR] "
    /\ ostream[1][2][1] = "Overflow Detected ["

\* C30: for every non-negative n of any width Factorial terminates: for
\* n >= 2 the multiplier starts at 2, is incremented once per iteration without
\* raising and reaches n after exactly n - 2 multiplications, whether or not
\* the running product overflows.  The last increment, from n - 1 to n, is
\* also made for the operands too large to run the loop on.
C30_FactorialTerminates ==
    /\ ( /\ Calling("Factorial")
         /\ Factorial_Check(call.lhs) = "loop" )
       => Let(Factorial_Loop(call.lhs), LAMBDA loop :
              /\ loop.kind = "returned"
              /\ Equals(loop.multiplier, call.lhs)
              /\ loop.multiplications = Z_Small(Value(call.lhs)) - 2)
    /\ Factorial_Check(x) = "loop"
       => Let(OperatorMinus(x, kOne(x.width)), LAMBDA last :
              /\ last.kind = "returned"
              /\ Let(OperatorPlus(last.val, kOne(x.width)), LAMBDA next :
                     next.kind = "returned" /\ Equals(next.val, x)))

\* C30: 13! was asked for in Fixed(4), the first whose product overflows
C30_Witness ==
    /\ Calling("Factorial")
    /\ call.lhs.width = kWidth_Min
    /\ Value(call.lhs) = Z(FALSE, <<3, 1>>)
    /\ call.out.kind = "OverflowException"
    /\ Factorial_Loop(call.lhs).multiplications = 11

====
